---- MODULE Spec2Model ----
(***************************************************************************)
(* Model of src/tuple_vs_list.c: a fixed container (struct tuple) and a    *)
(* growable container (struct List) of references to tagged values (Data). *)
(*                                                                         *)
(* Two specifications are given.                                           *)
(*   Spec      a caller that builds a tuple from any array of references,  *)
(*             prints and frees it, then creates a list, appends any       *)
(*             references to it, prints it and frees it.                   *)
(*   SpecDemo  the sequence of calls of main, the calls made by            *)
(*             list_initialize included, run on main's array and on every  *)
(*             other array of at most MaxElems references.                 *)
(* Buffer sizes are counted in slots of sizeof(Data* ) bytes.              *)
(***************************************************************************)
EXTENDS Integers, Sequences, FiniteSets, TLC

VARIABLES heap, t, list, inner, memory, out, diag, exitcode, ub, pc, op, hist

vars == <<heap, t, list, inner, memory, out, diag, exitcode, ub, pc, op, hist>>

(***************************************************************************)
(* Bounds of the model.                                                    *)
(***************************************************************************)
\* width in bits of unsigned int in the model (32 in the program)
UINT_BITS == 4
\* most appends the caller of Spec makes
MaxAppends == 9
\* longest array of references handed to tuple_initialize / list_initialize
MaxElems == 3

UINT_MOD == 2 ^ UINT_BITS

(***************************************************************************)
(* Program constants.                                                      *)
(***************************************************************************)
LIST_SIZE_MAX == 2

TYPE_INT == 0
TYPE_FLOAT == 1
TYPE_CHAR == 2
\* a tag value outside the enum Type
TYPE_BAD == 3

NULL == 0
\* an indeterminate value: a slot or field that was allocated and not written
Uninit == -1
\* exitcode of a process that has not terminated
Running == -1
EXIT_FAILURE == 1
\* exit status of a process killed by an invalid memory access
SIGSEGV_STATUS == 139

\* addresses of the Data objects of main, and of one Data with a bad tag
dataInt == 1
dataFloat == 2
dataChar == 3
dataBad == 4

Refs == {NULL, dataInt, dataFloat, dataChar, dataBad}
\* the references the caller of Spec appends: absent, valid, bad tag
AppendRefs == {NULL, dataInt, dataBad}

\* the Data object at an address; the float is held in thousandths
Data(d) ==
  CASE d = dataInt -> [type |-> TYPE_INT, value |-> 42]
    [] d = dataFloat -> [type |-> TYPE_FLOAT, value |-> 3140]
    [] d = dataChar -> [type |-> TYPE_CHAR, value |-> 65]
    [] d = dataBad -> [type |-> TYPE_BAD, value |-> 0]

\* Data *memory[] = { &dataInt, &dataFloat, &dataChar }
DemoMemory == <<dataInt, dataFloat, dataChar>>

Arrays(n) == UNION {[1..k -> Refs] : k \in 0..n}

(***************************************************************************)
(* The allocator.  heap is the sequence of blocks allocated so far; a      *)
(* pointer is an index into it.  Every request may fail.                   *)
(***************************************************************************)
FreshSlots(n) == [i \in 1..n |-> Uninit]

malloc(h, n) ==
  { [heap |-> h, ptr |-> NULL],
    [heap |-> Append(h, [st |-> "live", slots |-> FreshSlots(n)]),
     ptr |-> Len(h) + 1] }

free(h, p) ==
  IF p = NULL THEN h
  ELSE [h EXCEPT ![p] = [st |-> IF @.st = "live" THEN "freed" ELSE "doublefree",
                         slots |-> <<>>]]

\* the first n slots of s kept, the rest indeterminate
Resized(s, n) == [i \in 1..n |-> IF i <= Len(s) THEN s[i] ELSE Uninit]

\* failure; growth in place; a move; and, for a request of zero slots, the
\* old block released and NULL returned
realloc(h, p, n) ==
  { [heap |-> h, ptr |-> NULL],
    [heap |-> [h EXCEPT ![p].slots = Resized(@, n)], ptr |-> p],
    [heap |-> Append(free(h, p), [st |-> "live", slots |-> Resized(h[p].slots, n)]),
     ptr |-> Len(h) + 1] }
  \cup (IF n = 0 THEN {[heap |-> free(h, p), ptr |-> NULL]} ELSE {})

(***************************************************************************)
(* struct List and struct tuple.  rec is the address of the record.        *)
(***************************************************************************)
NullList == [rec |-> NULL, memory |-> NULL, size |-> 0, capacity |-> 0]
NullTuple == [rec |-> NULL, name |-> "", memory |-> NULL, size |-> 0]

Outcome(h, l, code, msg, u) ==
  [heap |-> h, list |-> l, exitcode |-> code, diag |-> msg, ub |-> u]

create_list(h) ==
  UNION {
    IF a.ptr = NULL
    THEN {Outcome(a.heap, NullList, EXIT_FAILURE, "Erreur d'allocation de memoire pour la liste", FALSE)}
    ELSE { IF b.ptr = NULL
           THEN Outcome(free(b.heap, a.ptr), NullList, EXIT_FAILURE,
                        "Erreur d'allocation de memoire pour les elements de la liste", FALSE)
           ELSE Outcome(b.heap,
                        [rec |-> a.ptr, memory |-> b.ptr, size |-> 0, capacity |-> LIST_SIZE_MAX],
                        Running, "", FALSE)
           : b \in malloc(a.heap, LIST_SIZE_MAX) }
    : a \in malloc(h, 0) }


\* line 74: the list is full
NeedsGrow(l) == l.size = l.capacity

\* a growth by a fixed step instead of a doubling
Doubled_additive(c) == (c + LIST_SIZE_MAX) % UINT_MOD

\* line 75: capacity *= 2 on an unsigned int
Doubled(c) == (c * 2) % UINT_MOD

\* lines 82-83: the store at index size, then size += 1.  A store past the end
\* of the buffer is undefined: the process is killed, or the store lands
\* outside the buffer and the call returns.
store(h, l, d) ==
  LET l2 == [l EXCEPT !.size = (@ + 1) % UINT_MOD] IN
  IF l.size < Len(h[l.memory].slots)
  THEN {Outcome([h EXCEPT ![l.memory].slots[l.size + 1] = d], l2, Running, "", FALSE)}
  ELSE {Outcome(h, l2, Running, "", TRUE),
        Outcome(h, l, SIGSEGV_STATUS, "", TRUE)}

\* size counted before the buffer is grown
append_early_count(h, l, d) ==
  LET l1 == [l EXCEPT !.size = (@ + 1) % UINT_MOD] IN
  IF NeedsGrow(l)
  THEN LET cap == Doubled(l.capacity) IN
       UNION { IF r.ptr = NULL
               THEN {Outcome(r.heap, [l1 EXCEPT !.capacity = cap, !.memory = NULL],
                             EXIT_FAILURE, "Erreur de redimensionnement de la liste", FALSE)}
               ELSE store(r.heap, [l EXCEPT !.capacity = cap, !.memory = r.ptr], d)
               : r \in realloc(h, l.memory, cap) }
  ELSE store(h, l, d)

append(h, l, d) ==
  IF NeedsGrow(l)
  THEN LET cap == Doubled(l.capacity) IN
       UNION { IF r.ptr = NULL
               THEN {Outcome(r.heap, [l EXCEPT !.capacity = cap, !.memory = NULL],
                             EXIT_FAILURE, "Erreur de redimensionnement de la liste", FALSE)}
               ELSE store(r.heap, [l EXCEPT !.capacity = cap, !.memory = r.ptr], d)
               : r \in realloc(h, l.memory, cap) }
  ELSE store(h, l, d)

\* a copy that stops one reference short
memcpy_short(h, dst, src, n) ==
  [h EXCEPT ![dst].slots = [i \in 1..Len(@) |-> IF i < n THEN src[i] ELSE @[i]]]

\* line 113: memcpy of n references from the array src into block dst
memcpy(h, dst, src, n) ==
  [h EXCEPT ![dst].slots = [i \in 1..Len(@) |-> IF i <= n THEN src[i] ELSE @[i]]]

TupleOutcome(h, tp, code, msg) ==
  [heap |-> h, t |-> tp, exitcode |-> code, diag |-> msg]

\* lines 141-146 of main: the caller allocates and names the record
new_tuple(h) ==
  { IF a.ptr = NULL
    THEN TupleOutcome(a.heap, NullTuple, EXIT_FAILURE, "Erreur d'allocation de memoire pour le tuple")
    ELSE TupleOutcome(a.heap, [rec |-> a.ptr, name |-> "mytuple", memory |-> Uninit, size |-> Uninit],
                      Running, "")
    : a \in malloc(h, 0) }

tuple_initialize(h, tp, elements, size) ==
  { IF a.ptr = NULL
    THEN TupleOutcome(a.heap, [tp EXCEPT !.size = size, !.memory = NULL], EXIT_FAILURE,
                      "Erreur d'allocation de memoire pour le tuple")
    ELSE TupleOutcome(memcpy(a.heap, a.ptr, elements, size),
                      [tp EXCEPT !.size = size, !.memory = a.ptr], Running, "")
    : a \in malloc(h, size) }

\* %.2f of a value held in thousandths: integer part and two rounded digits
FormatF2(v) == LET c == (v + 5) \div 10 IN <<c \div 100, c % 100>>

\* no check for an absent reference: NULL falls to the default case
displayData_nonull(d) ==
  LET D == IF d = NULL THEN [type |-> TYPE_BAD, value |-> 0] ELSE Data(d) IN
  CASE D.type = TYPE_INT -> [text |-> "Type: INT, Value: ", val |-> <<D.value>>]
    [] D.type = TYPE_FLOAT -> [text |-> "Type: FLOAT, Value: ", val |-> FormatF2(D.value)]
    [] D.type = TYPE_CHAR -> [text |-> "Type: CHAR, Value: ", val |-> <<D.value>>]
    [] OTHER -> [text |-> "Unknown type", val |-> <<>>]

displayData(d) ==
  IF d = NULL THEN [text |-> "Invalid Data", val |-> <<>>]
  ELSE LET D == Data(d) IN
       CASE D.type = TYPE_INT -> [text |-> "Type: INT, Value: ", val |-> <<D.value>>]
         [] D.type = TYPE_FLOAT -> [text |-> "Type: FLOAT, Value: ", val |-> FormatF2(D.value)]
         [] D.type = TYPE_CHAR -> [text |-> "Type: CHAR, Value: ", val |-> <<D.value>>]
         [] OTHER -> [text |-> "Unknown type", val |-> <<>>]

\* the lines written, one per index: "Index: i, " then displayData's line
print_list(h, l) ==
  [i \in 1..l.size |-> [index |-> i - 1, line |-> displayData(h[l.memory].slots[i])]]

print_tuple(h, tp) ==
  [i \in 1..tp.size |-> [index |-> i - 1, line |-> displayData(h[tp.memory].slots[i])]]

free_list(h, l) == free(free(h, l.memory), l.rec)

free_tuple(h, tp) == free(free(h, tp.memory), tp.rec)

(***************************************************************************)
(* Spec: a caller of the two containers.                                   *)
(***************************************************************************)
Init ==
  /\ heap = <<>>
  /\ t = NullTuple
  /\ list = NullList
  /\ inner = NullList
  /\ memory = <<>>
  /\ out = <<>>
  /\ diag = ""
  /\ exitcode = Running
  /\ ub = FALSE
  /\ pc = "t_new"
  /\ op = "none"
  /\ hist = <<>>

\* exit() ends the process; after undefined behaviour nothing is modelled
Alive == exitcode = Running /\ ~ub

NewTuple ==
  /\ Alive /\ pc = "t_new"
  /\ \E o \in new_tuple(heap) :
       /\ heap' = o.heap /\ t' = o.t /\ exitcode' = o.exitcode /\ diag' = o.diag
  /\ pc' = "t_init" /\ op' = "new_tuple" /\ out' = <<>>
  /\ UNCHANGED <<list, inner, memory, ub, hist>>

TupleInit ==
  /\ Alive /\ pc = "t_init"
  /\ \E elements \in Arrays(MaxElems) :
       /\ memory' = elements
       /\ \E o \in tuple_initialize(heap, t, elements, Len(elements)) :
            /\ heap' = o.heap /\ t' = o.t /\ exitcode' = o.exitcode /\ diag' = o.diag
  /\ pc' = "t_ready" /\ op' = "tuple_initialize" /\ out' = <<>>
  /\ UNCHANGED <<list, inner, ub, hist>>

PrintTuple ==
  /\ Alive /\ pc = "t_ready"
  /\ out' = print_tuple(heap, t)
  /\ op' = "print_tuple"
  /\ UNCHANGED <<heap, t, list, inner, memory, diag, exitcode, ub, pc, hist>>

FreeTuple ==
  /\ Alive /\ pc = "t_ready"
  /\ heap' = free_tuple(heap, t)
  /\ t' = NullTuple
  /\ memory' = <<>>
  /\ pc' = "l_new" /\ op' = "free_tuple" /\ out' = <<>>
  /\ UNCHANGED <<list, inner, diag, exitcode, ub, hist>>

CreateList ==
  /\ Alive /\ pc = "l_new"
  /\ \E o \in create_list(heap) :
       /\ heap' = o.heap /\ list' = o.list /\ exitcode' = o.exitcode /\ diag' = o.diag
  /\ pc' = "l_ready" /\ op' = "create_list" /\ out' = <<>>
  /\ UNCHANGED <<t, inner, memory, ub, hist>>

AppendOne ==
  /\ Alive /\ pc = "l_ready"
  /\ Len(hist) < MaxAppends
  /\ \E d \in AppendRefs :
       \E o \in append(heap, list, d) :
         /\ heap' = o.heap /\ list' = o.list /\ exitcode' = o.exitcode
         /\ diag' = o.diag /\ ub' = o.ub
         /\ hist' = IF o.exitcode = Running THEN Append(hist, d) ELSE hist
  /\ op' = "append" /\ out' = <<>>
  /\ UNCHANGED <<t, inner, memory, pc>>

PrintList ==
  /\ Alive /\ pc = "l_ready"
  /\ out' = print_list(heap, list)
  /\ op' = "print_list"
  /\ UNCHANGED <<heap, t, list, inner, memory, diag, exitcode, ub, pc, hist>>

FreeList ==
  /\ Alive /\ pc = "l_ready"
  /\ heap' = free_list(heap, list)
  /\ list' = NullList
  /\ hist' = <<>>
  /\ pc' = "end" /\ op' = "free_list" /\ out' = <<>>
  /\ UNCHANGED <<t, inner, memory, diag, exitcode, ub>>

Next ==
  \/ NewTuple
  \/ TupleInit
  \/ PrintTuple
  \/ FreeTuple
  \/ CreateList
  \/ AppendOne
  \/ PrintList
  \/ FreeList

Spec == Init /\ [][Next]_vars

(***************************************************************************)
(* SpecDemo: main.  memory is main's array; inner is the local variable    *)
(* list of list_initialize, which line 88 overwrites; hist holds the       *)
(* elements its loop has appended, so the loop index i is Len(hist).       *)
(***************************************************************************)
InitDemo ==
  /\ heap = <<>>
  /\ t = NullTuple
  /\ list = NullList
  /\ inner = NullList
  /\ memory \in Arrays(MaxElems)
  /\ out = <<>>
  /\ diag = ""
  /\ exitcode = Running
  /\ ub = FALSE
  /\ pc = "m_new"
  /\ op = "none"
  /\ hist = <<>>

\* lines 141-146
Main_NewTuple ==
  /\ Alive /\ pc = "m_new"
  /\ \E o \in new_tuple(heap) :
       /\ heap' = o.heap /\ t' = o.t /\ exitcode' = o.exitcode /\ diag' = o.diag
  /\ pc' = "m_tinit" /\ op' = "new_tuple" /\ out' = <<>>
  /\ UNCHANGED <<list, inner, memory, ub, hist>>

\* line 149
Main_TupleInit ==
  /\ Alive /\ pc = "m_tinit"
  /\ \E o \in tuple_initialize(heap, t, memory, Len(memory)) :
       /\ heap' = o.heap /\ t' = o.t /\ exitcode' = o.exitcode /\ diag' = o.diag
  /\ pc' = "m_tprint" /\ op' = "tuple_initialize" /\ out' = <<>>
  /\ UNCHANGED <<list, inner, memory, ub, hist>>

\* line 151
Main_PrintTuple ==
  /\ Alive /\ pc = "m_tprint"
  /\ out' = print_tuple(heap, t)
  /\ pc' = "m_mklist" /\ op' = "print_tuple"
  /\ UNCHANGED <<heap, t, list, inner, memory, diag, exitcode, ub, hist>>

\* line 153
Main_CreateList ==
  /\ Alive /\ pc = "m_mklist"
  /\ \E o \in create_list(heap) :
       /\ heap' = o.heap /\ list' = o.list /\ exitcode' = o.exitcode /\ diag' = o.diag
  /\ pc' = "li_create" /\ op' = "create_list" /\ out' = <<>>
  /\ UNCHANGED <<t, inner, memory, ub, hist>>

\* line 154 enters list_initialize; line 88: list = create_list() assigns the
\* parameter, a copy of main's pointer
LI_CreateList ==
  /\ Alive /\ pc = "li_create"
  /\ \E o \in create_list(heap) :
       /\ heap' = o.heap /\ inner' = o.list /\ exitcode' = o.exitcode /\ diag' = o.diag
  /\ pc' = "li_loop" /\ op' = "li_create_list" /\ out' = <<>>
  /\ UNCHANGED <<t, list, memory, ub, hist>>

\* lines 89-91, one iteration
LI_Append ==
  /\ Alive /\ pc = "li_loop"
  /\ Len(hist) < Len(memory)
  /\ \E o \in append(heap, inner, memory[Len(hist) + 1]) :
       /\ heap' = o.heap /\ inner' = o.list /\ exitcode' = o.exitcode
       /\ diag' = o.diag /\ ub' = o.ub
       /\ hist' = IF o.exitcode = Running THEN Append(hist, memory[Len(hist) + 1]) ELSE hist
  /\ op' = "append" /\ out' = <<>>
  /\ UNCHANGED <<t, list, memory, pc>>

\* line 92: the loop is over and list_initialize returns to main
LI_Return ==
  /\ Alive /\ pc = "li_loop"
  /\ Len(hist) >= Len(memory)
  /\ pc' = "m_lprint" /\ op' = "list_initialize" /\ out' = <<>>
  /\ UNCHANGED <<heap, t, list, inner, memory, diag, exitcode, ub, hist>>

\* line 156
Main_PrintList ==
  /\ Alive /\ pc = "m_lprint"
  /\ out' = print_list(heap, list)
  /\ pc' = "m_lfree" /\ op' = "print_list"
  /\ UNCHANGED <<heap, t, list, inner, memory, diag, exitcode, ub, hist>>

\* line 159
Main_FreeList ==
  /\ Alive /\ pc = "m_lfree"
  /\ heap' = free_list(heap, list)
  /\ pc' = "m_tfree" /\ op' = "free_list" /\ out' = <<>>
  /\ UNCHANGED <<t, list, inner, memory, diag, exitcode, ub, hist>>

\* line 160
Main_FreeTuple ==
  /\ Alive /\ pc = "m_tfree"
  /\ heap' = free_tuple(heap, t)
  /\ pc' = "m_return" /\ op' = "free_tuple" /\ out' = <<>>
  /\ UNCHANGED <<t, list, inner, memory, diag, exitcode, ub, hist>>

\* line 161
Main_Return ==
  /\ Alive /\ pc = "m_return"
  /\ exitcode' = 0
  /\ pc' = "done" /\ op' = "return" /\ out' = <<>>
  /\ UNCHANGED <<heap, t, list, inner, memory, diag, ub, hist>>

NextDemo ==
  \/ Main_NewTuple
  \/ Main_TupleInit
  \/ Main_PrintTuple
  \/ Main_CreateList
  \/ LI_CreateList
  \/ LI_Append
  \/ LI_Return
  \/ Main_PrintList
  \/ Main_FreeList
  \/ Main_FreeTuple
  \/ Main_Return

SpecDemo == InitDemo /\ [][NextDemo]_vars

(***************************************************************************)
(* Properties.                                                             *)
(***************************************************************************)
\* the buffer of a list or tuple
Slots(c) == heap[c.memory].slots

\* in Spec: create_list has returned and so has every append made so far
ListReady == pc = "l_ready" /\ exitcode = Running

IsDoubling(c) == \E k \in 0..MaxAppends : c = LIST_SIZE_MAX * (2 ^ k)

\* C1: after each append on a list from create_list, size is the number of
\* appends made so far, capacity is 2 * 2^k for some k >= 0, and
\* size <= capacity.
C1_SizeCapacityAfterAppends ==
  ListReady =>
    /\ list.size = Len(hist)
    /\ IsDoubling(list.capacity)
    /\ list.size <= list.capacity

\* C2: an append that returns doubles capacity exactly when size = capacity
\* held before the call, and leaves capacity unchanged when size < capacity;
\* when it grows, the new capacity is twice the old one and the new size is
\* the old size plus one, at most the new capacity.
C2_DoublesExactlyWhenFull ==
  [][(op' = "append" /\ exitcode' = Running) =>
       /\ (list.size = list.capacity =>
             /\ list'.capacity = 2 * list.capacity
             /\ list'.size = list.size + 1
             /\ list'.size <= list'.capacity)
       /\ (list.size < list.capacity => list'.capacity = list.capacity)
       /\ (list'.capacity # list.capacity => list.size = list.capacity)]_vars

\* C3: after appending r_1 .. r_n to a fresh list, with or without
\* reallocations, slot i-1 of the buffer holds r_i for every 1 <= i <= n.
C3_InsertionOrderKept ==
  ListReady =>
    \A i \in 1..Len(hist) :
      /\ list.memory # NULL
      /\ i <= Len(Slots(list))
      /\ Slots(list)[i] = hist[i]

\* C4: for every N >= 0, tuple_initialize on an array of N references and
\* size N yields a tuple of size N whose slot i holds elements[i], and
\* print_tuple then writes one line per reference, in input order.
C4_TupleHoldsInput ==
  (pc = "t_ready" /\ exitcode = Running) =>
    /\ t.size = Len(memory)
    /\ Len(Slots(t)) = Len(memory)
    /\ \A i \in 1..Len(memory) : Slots(t)[i] = memory[i]
    /\ (op = "print_tuple" =>
          out = [i \in 1..Len(memory) |-> [index |-> i - 1, line |-> displayData(memory[i])]])

C4_Witness ==
  /\ pc = "t_ready" /\ op = "print_tuple"
  /\ memory = DemoMemory
  /\ Len(out) = 3

\* C5: after list_initialize(list, elements, n) returns, the list main holds,
\* prints and frees has size n and holds the n references in input order; in
\* the demo run the printed list holds the three references of the array.
C5_CallerListHoldsElements ==
  (pc \in {"m_lprint", "m_lfree"} /\ exitcode = Running) =>
    /\ list.size = Len(memory)
    /\ \A i \in 1..Len(memory) : Slots(list)[i] = memory[i]
    /\ (op = "print_list" /\ memory = DemoMemory => Len(out) = 3)

\* C6: when main returns without an allocation failure, every block that was
\* allocated (each List record and buffer, the tuple record and its buffer)
\* has been released exactly once: none is still allocated, none released
\* twice.
C6_EveryBlockReleasedOnce ==
  pc = "done" => \A b \in DOMAIN heap : heap[b].st = "freed"

\* the line displayData owes a reference, as the claim states it
OwedText(d) ==
  IF d = NULL THEN "Invalid Data"
  ELSE IF Data(d).type \notin {TYPE_INT, TYPE_FLOAT, TYPE_CHAR} THEN "Unknown type"
  ELSE IF Data(d).type = TYPE_INT THEN "Type: INT, Value: "
  ELSE IF Data(d).type = TYPE_FLOAT THEN "Type: FLOAT, Value: "
  ELSE "Type: CHAR, Value: "

OneLinePerIndex(lines, c) ==
  /\ Len(lines) = c.size
  /\ \A i \in 1..c.size :
       /\ lines[i].index = i - 1
       /\ lines[i].line.text = OwedText(Slots(c)[i])

\* C7: print_list and print_tuple complete on any mix of valid references,
\* NULL references and values with an unknown tag, write exactly one line
\* per index 0..size-1 in order ("Invalid Data" for NULL, "Unknown type" for
\* an unknown tag), and leave the container and its buffer unchanged.
C7_DisplayTotalReadOnly ==
  [][/\ (op' = "print_list" =>
           /\ exitcode' = Running /\ ~ub'
           /\ list' = list /\ t' = t /\ heap' = heap
           /\ OneLinePerIndex(out', list))
     /\ (op' = "print_tuple" =>
           /\ exitcode' = Running /\ ~ub'
           /\ list' = list /\ t' = t /\ heap' = heap
           /\ OneLinePerIndex(out', t))]_vars

C7_Witness ==
  /\ op = "print_list"
  /\ hist = <<NULL, dataBad, dataInt>>
  /\ Len(out) = 3
  /\ out[1].line.text = "Invalid Data"
  /\ out[2].line.text = "Unknown type"

\* C8: when an allocation fails (malloc in create_list or tuple_initialize,
\* realloc in append) the process terminates at once with a non-zero exit
\* status and no later operation runs; in append, size has not been
\* incremented and no slot has been written when the process terminates.
C8_AllocationFailureIsFatal ==
  [][/\ (exitcode # Running => UNCHANGED vars)
     /\ (Len(heap') = Len(heap) /\ op' \in {"new_tuple", "tuple_initialize", "create_list", "li_create_list"}
           => exitcode' \notin {Running, 0})
     /\ (diag' # "" => exitcode' \notin {Running, 0})
     /\ (op' = "append" /\ exitcode = Running /\ exitcode' = EXIT_FAILURE =>
           /\ inner'.size = inner.size
           /\ inner'.memory = NULL
           /\ Len(heap') = Len(heap)
           /\ \A b \in DOMAIN heap : heap'[b].st = "live" => heap'[b] = heap[b])]_vars

C8_Witness ==
  /\ op = "append"
  /\ exitcode = EXIT_FAILURE
  /\ diag = "Erreur de redimensionnement de la liste"
  /\ inner.size = 2
  /\ pc = "li_loop"

\* C9 as stated: from a fresh list of capacity 2, A and B give count 2 and
\* capacity 2; C grows to capacity 4 with count 3; D and E fill the list to
\* count 4 without a grow; F then grows to capacity 8 with count 5.
C9_ScenarioAsStated ==
  ListReady =>
    /\ (Len(hist) = 2 => list.size = 2 /\ list.capacity = 2)
    /\ (Len(hist) = 3 => list.size = 3 /\ list.capacity = 4)
    /\ (Len(hist) = 5 => list.size = 4 /\ list.capacity = 4)
    /\ (Len(hist) = 6 => list.size = 5 /\ list.capacity = 8)

\* C9 amended: A and B give count 2, capacity 2; C grows to capacity 4 with
\* count 3; D fills the list to count 4 without a grow; E grows to capacity 8
\* with count 5; F gives count 6 without a grow.
C9_Scenario ==
  ListReady =>
    /\ (Len(hist) = 0 => list.size = 0 /\ list.capacity = 2)
    /\ (Len(hist) = 1 => list.size = 1 /\ list.capacity = 2)
    /\ (Len(hist) = 2 => list.size = 2 /\ list.capacity = 2)
    /\ (Len(hist) = 3 => list.size = 3 /\ list.capacity = 4)
    /\ (Len(hist) = 4 => list.size = 4 /\ list.capacity = 4)
    /\ (Len(hist) = 5 => list.size = 5 /\ list.capacity = 8)
    /\ (Len(hist) = 6 => list.size = 6 /\ list.capacity = 8)

C9_Witness ==
  /\ ListReady
  /\ op = "append"
  /\ Len(hist) = 6
  /\ list.size = 6
  /\ list.capacity = 8

\* C10: size <= capacity in every state reached by appends, with size and
\* capacity unsigned integers of fixed width and capacity *= 2 computed
\* modulo 2^w: the doubled capacity never wraps below size.
C10_SizeWithinCapacity ==
  pc = "l_ready" => list.size <= list.capacity

====
